---- MODULE Spec2Model ----
(***************************************************************************)
(* A model of pycloudlib's instance lifecycle: the LXD instance handle     *)
(* (pycloudlib/lxd/instance.py), GCE's long-running-operation wait         *)
(* (pycloudlib/gce/cloud.py) and EC2's snapshot coordinator                *)
(* (pycloudlib/ec2/cloud.py), the EC2 object's other calls and the         *)
(* launch_multiple examples.  Each part has its own specification          *)
(* (SpecLXD, SpecGCE, SpecEC2, SpecEC2Api, SpecEC2Keys, SpecBatch); the    *)
(* variables of the other parts stay at their initial values.              *)
(***************************************************************************)
EXTENDS Integers, Sequences, FiniteSets, TLC

VARIABLES
    lxdInst,      \* the container as the LXD daemon has it: Running, Stopped, Absent
    lxdEphemeral, \* the container was launched ephemeral (deleted on stop)
    lxdShape,     \* which fields the text of `lxc info` carries
    lxdImages,    \* aliases of the images published so far
    lxdSnaps,     \* names of the container's local snapshots
    lxdDeleted,   \* a delete() of this handle has removed the container
    lxdName,      \* the handle's _name
    lxdCall       \* the last call made on the handle, with what it did

lxdVars == <<lxdInst, lxdEphemeral, lxdShape, lxdImages, lxdSnaps, lxdDeleted,
             lxdName, lxdCall>>

VARIABLES
    gcePc,        \* where GCE.launch is: idle, sleep, probe, get, returned, raised
    gceWait,      \* the wait argument of the launch in progress
    gceDoneAt,    \* the probe on which the operation first reports DONE (0: never)
    gceErrField,  \* the 'error' field of the operation's DONE result
    gceResult,    \* the result of the last zoneOperations().get
    gceWaitRet,   \* what _wait_for_operation returned
    gceRaised,    \* the payload of the exception raised, if any
    gceRet,       \* what launch returned
    gceSleeps,    \* time.sleep(5) calls of the wait in progress
    gceProbes,    \* zoneOperations().get calls of the wait in progress
    gceInserts,   \* instances().insert calls of the launch in progress
    gceGets,      \* instances().get calls of the launch in progress
    gceStub       \* the last call of a method GCE does not implement

gceVars == <<gcePc, gceWait, gceDoneAt, gceErrField, gceResult, gceWaitRet,
             gceRaised, gceRet, gceSleeps, gceProbes, gceInserts, gceGets,
             gceStub>>

VARIABLES
    ec2Pc,        \* where EC2.snapshot is
    ec2Clean,     \* the clean argument of the snapshot in progress
    ec2Inst,      \* the instance's state as EC2 has it
    ec2InstImage, \* the image id the instance was launched from
    ec2PreInst,   \* the instance's state when snapshot was called
    ec2Registered,\* the image ids registered with EC2
    ec2Available, \* the registered image ids that are available
    ec2NextId,    \* the next image id EC2 hands out
    ec2Image,     \* the image id create_image returned (0: none yet)
    ec2Log,       \* the calls the snapshot in progress has made, in order
    ec2Ret,       \* what snapshot returned (0: nothing)
    ec2Raised,    \* the error snapshot raised, if any
    ec2DelPc,     \* where EC2.delete_image is
    ec2DelImage,  \* the image_id argument of the delete_image in progress
    ec2DelSnap,   \* the snapshot id delete_image read from the image
    ec2DelLog,    \* the requests the delete_image in progress has made
    ec2SnapsDeleted  \* the EBS snapshots that have been deleted

ec2DelVars == <<ec2DelPc, ec2DelImage, ec2DelSnap, ec2DelLog, ec2SnapsDeleted>>

ec2Vars == <<ec2Pc, ec2Clean, ec2Inst, ec2InstImage, ec2PreInst, ec2Registered,
             ec2Available, ec2NextId, ec2Image, ec2Log, ec2Ret, ec2Raised,
             ec2DelVars>>

VARIABLES
    apiKeyPair,   \* the name of the EC2 object's key pair (self.key_pair)
    apiVpcs,      \* the VPCs EC2 has, each [id, name, subnets]
    apiHandles,   \* the instance handles launch has returned, each [id, key]
    apiCall,      \* the last call made on the EC2 object, with what it did
    apiAttrs,     \* the EC2 object's tag, region, client and resource
    apiKeyMaterial,  \* public_key_content of the EC2 object's key pair
    apiProviderKeys  \* the key pairs EC2 has registered, each <<name, material>>

apiVars == <<apiKeyPair, apiVpcs, apiHandles, apiCall, apiAttrs, apiKeyMaterial,
             apiProviderKeys>>

VARIABLES
    batBackend,   \* which example's launch_multiple runs: "ec2" or "lxd"
    batPc,        \* the loop launch_multiple is in, or the call it is blocked in
    batI,         \* the index in `instances` the loop is at
    batInst,      \* each instance as its backend has it
    batLog        \* the calls launch_multiple has begun, in order

batVars == <<batBackend, batPc, batI, batInst, batLog>>

vars == <<lxdVars, gceVars, ec2Vars, apiVars, batVars>>

(***************************************************************************)
(* Bounds.                                                                 *)
(***************************************************************************)
\* The latest probe on which an operation that completes reports DONE.
MaxDoneAt == 3

\* The sleep and probe counters of a wait stop counting here, above every
\* count a completing operation reaches; the loop itself goes on.
CounterCap == MaxDoneAt + 1

\* The number of images snapshot calls may create.
MaxSnapshots == 2

\* The image ids that exist before any snapshot is taken.
BaseImages == {1, 2}

\* range(3): the number of instances launch_multiple launches.
BatchSize == 3

\* The number of instances launch calls may create.
MaxInstances == 2

\* The number of subnets a VPC may come to have.
MaxSubnets == 2

\* The snapshot names a caller passes; "None" stands for Python's None.
SnapshotNames == {"None", "snap"}

(***************************************************************************)
(* The LXD daemon as seen through the lxc command line.                    *)
(***************************************************************************)
InfoShapes == {"full", "noStatus", "noType", "repeated"}

\* The text `lxc info <name>` prints for an existing container, as its
\* sequence of "Field: value" lines.  The container's own fields come first;
\* later sections of the output (network, snapshots) may use a field's name
\* again.
LxcInfoText(inst, eph, shape) ==
    LET name   == << <<"Name", "pycloudlib">> >>
        status == IF shape = "noStatus" THEN <<>> ELSE << <<"Status", inst>> >>
        type   == IF shape = "noType" THEN <<>>
                  ELSE << <<"Type", IF eph THEN "ephemeral" ELSE "persistent">> >>
        again  == IF shape = "repeated"
                  THEN << <<"Type", "broadcast">>, <<"Status", "UP">> >>
                  ELSE <<>>
    IN  name \o status \o type \o again

\* What one lxc command does to the daemon: its exit code, the container
\* afterwards, the text on stdout and the published images and snapshots.
LxcExec(cmd, arg, r) ==
    LET same == [rc |-> 0, inst |-> r.inst, out |-> <<>>,
                 images |-> r.images, snaps |-> r.snaps]
        fail == [same EXCEPT !.rc = 1]
    IN  CASE cmd = "info" ->
                IF r.inst = "Absent" THEN fail
                ELSE [same EXCEPT !.out = LxcInfoText(r.inst, r.eph, r.shape)]
          [] cmd = "start" ->
                IF r.inst = "Stopped" THEN [same EXCEPT !.inst = "Running"] ELSE fail
          [] cmd = "stop" ->
                IF r.inst = "Running"
                THEN [same EXCEPT !.inst = IF r.eph THEN "Absent" ELSE "Stopped"]
                ELSE fail
          [] cmd = "delete" /\ arg = "" ->
                IF r.inst = "Absent" THEN fail ELSE [same EXCEPT !.inst = "Absent"]
          [] cmd = "delete" /\ arg # "" ->
                IF r.inst # "Absent" /\ arg \in r.snaps
                THEN [same EXCEPT !.snaps = r.snaps \ {arg}] ELSE fail
          [] cmd = "restore" ->
                IF r.inst # "Absent" /\ arg \in r.snaps THEN same ELSE fail
          [] cmd = "config" ->
                IF r.inst = "Absent" THEN fail ELSE same
          [] cmd = "publish" ->
                IF r.inst = "Stopped" /\ arg \notin r.images
                THEN [same EXCEPT !.images = r.images \cup {arg}] ELSE fail
          [] cmd = "snapshot" ->
                IF r.inst # "Absent" /\ arg \notin r.snaps
                THEN [same EXCEPT !.snaps = r.snaps \cup {arg}] ELSE fail
          [] OTHER -> fail

\* pycloudlib.util.subp: run the command; a non-zero exit code is raised as
\* an error, otherwise the output is returned.  A run that has already
\* raised executes nothing more.
SubpAt(r, cmd, target, arg, flag) ==
    IF r.err # "none" THEN r
    ELSE LET x == LxcExec(cmd, arg, r)
         IN  [r EXCEPT !.inst = x.inst, !.images = x.images, !.snaps = x.snaps,
                       !.out = x.out,
                       !.err = IF x.rc = 0 THEN "none" ELSE "ProcessExecutionError",
                       !.log = Append(r.log, [cmd |-> cmd, target |-> target,
                                              arg |-> arg, flag |-> flag,
                                              post |-> x.inst])]

\* subp(['lxc', <cmd>, self.name, ...]): a command on the handle's container
Subp(r, cmd, arg, flag) == SubpAt(r, cmd, r.name, arg, flag)

\* A step of the handle that runs no lxc command (a wait, a clean pass).
Note(r, what) ==
    [r EXCEPT !.log = Append(r.log, [cmd |-> what, target |-> "", arg |-> "",
                                     flag |-> "", post |-> r.inst])]

\* re.findall(r'<field>: (.*)', text): the values of every such line, in order.
FindAll(field, text) ==
    LET hits == SelectSeq(text, LAMBDA line : line[1] = field)
    IN  [i \in 1..Len(hits) |-> hits[i][2]]

(***************************************************************************)
(* LXDInstance.  A call is a run: the record r threads the daemon's state, *)
(* the commands issued so far (log), the value a property returned (val),  *)
(* the value the call returns (ret) and the error raised, if any (err).    *)
(***************************************************************************)
\* state without its fallback: the IndexError of [0] on no match propagates.
StateNoFallback(r) ==
    LET p == Subp(r, "info", "", "")
        found == FindAll("Status", p.out)
    IN  IF p.err # "none" THEN p
        ELSE IF Len(found) = 0 THEN [p EXCEPT !.err = "IndexError"]
        ELSE [p EXCEPT !.val = found[1]]

\* LXDInstance.ephemeral; val holds the boolean returned, as Python prints it
Ephemeral(r) ==
    LET p == Subp(r, "info", "", "")
        found == FindAll("Type", p.out)
    IN  IF p.err # "none" THEN p
        ELSE [p EXCEPT !.val = IF Len(found) = 0 THEN "False"
                               ELSE IF found[1] = "ephemeral" THEN "True"
                               ELSE "False"]

\* LXDInstance.state
State(r) ==
    LET p == Subp(r, "info", "", "")
        found == FindAll("Status", p.out)
    IN  IF p.err # "none" THEN p
        ELSE [p EXCEPT !.val = IF Len(found) = 0 THEN "Unknown" ELSE found[1]]

\* BaseInstance.wait -> _wait_for_system: block until the instance is up and
\* cloud-init is complete; a deadline that passes first is raised.
Wait(r, env) ==
    IF r.err # "none" THEN r
    ELSE LET w == Note(r, "wait")
         IN  IF r.inst = "Running" /\ ~env.waitFails THEN w
             ELSE [w EXCEPT !.err = "WaitTimeout"]

\* LXDInstance.wait_for_stop and wait_for_delete: entered, and empty.
WaitForStop(r) == IF r.err # "none" THEN r ELSE Note(r, "wait_for_stop")

WaitForDelete(r) == IF r.err # "none" THEN r ELSE Note(r, "wait_for_delete")

\* BaseInstance.clean: runs the hygiene commands inside the instance; they
\* run on a Running instance, and may fail to run at all on any other.
Clean(r, env) ==
    IF r.err # "none" THEN r
    ELSE LET c == Note(r, "clean")
         IN  IF r.inst = "Running" \/ ~env.cleanFails THEN c
             ELSE [c EXCEPT !.err = "CommandError"]

\* start() without its short-circuit on a Running instance.
StartNoGuard(r, wait, env) ==
    LET p == State(r)
        s == Subp(p, "start", "", "")
    IN  IF p.err # "none" THEN p
        ELSE IF wait THEN Wait(s, env) ELSE s

\* LXDInstance.start
Start(r, wait, env) ==
    LET p == State(r)
        s == Subp(p, "start", "", "")
    IN  IF p.err # "none" THEN p
        ELSE IF p.val = "Running" THEN p
        ELSE IF wait THEN Wait(s, env) ELSE s

\* shutdown() without its short-circuit on a Stopped instance.
ShutdownNoGuard(r, wait, env) ==
    LET p == State(r)
        s == Subp(p, "stop", "", "--force")
    IN  IF p.err # "none" THEN p
        ELSE IF wait THEN WaitForStop(s) ELSE s

\* LXDInstance.shutdown
Shutdown(r, wait, env) ==
    LET p == State(r)
        s == Subp(p, "stop", "", "--force")
    IN  IF p.err # "none" THEN p
        ELSE IF p.val = "Stopped" THEN p
        ELSE IF wait THEN WaitForStop(s) ELSE s

\* restart() that only starts, skipping the shutdown.
RestartNoShutdown(r, wait, env) == Start(r, wait, env)

\* restart() that lets a failed command pass as success.
RestartIgnoresFailure(r, wait, env) ==
    [Start(Shutdown(r, TRUE, env), wait, env) EXCEPT !.err = "none"]

\* LXDInstance.restart
Restart(r, wait, env) == Start(Shutdown(r, TRUE, env), wait, env)

\* instance.shutdown() followed by instance.start(), as a caller writes them
ShutdownThenStart(r, wait, env) == Start(Shutdown(r, wait, env), wait, env)

\* delete() that waits without having asked lxc to delete the container.
DeleteOnlyWaits(r, wait) == IF wait THEN WaitForDelete(r) ELSE r

\* LXDInstance.delete
Delete(r, wait) ==
    LET d == Subp(r, "delete", "", "--force")
    IN  IF wait THEN WaitForDelete(d) ELSE d

\* delete_snapshot that hands lxc the snapshot's name without the container's.
DeleteSnapshotBareName(r, name) == SubpAt(r, "delete", name, name, "")

\* LXDInstance.delete_snapshot: lxc delete '<name>/<snapshot_name>'
DeleteSnapshot(r, name) == SubpAt(r, "delete", r.name \o "/" \o name, name, "")

\* LXDInstance.edit: lxc config set <name> <key> <value>
Edit(r, key, value) == Subp(r, "config", key, value)

\* LXDInstance.restore: lxc restore <name> <snapshot_name>
Restore(r, name) == Subp(r, "restore", name, "")

\* The name a handle is constructed with.
HandleName == "pycloudlib"

\* '{}-snapshot'.format(self.name), the name used when the caller gives None
DefaultSnapshotName == "pycloudlib-snapshot"

SnapshotNameOf(name) == IF name = "None" THEN DefaultSnapshotName ELSE name

\* What a call returns once its last command has run (nothing if it raised).
Return(r, value) == IF r.err # "none" THEN r ELSE [r EXCEPT !.ret = value]

\* LXDInstance.snapshot
Snapshot(r, name, env) ==
    LET s == Shutdown(Clean(r, env), TRUE, env)
        p == Subp(s, "publish", SnapshotNameOf(name), "")
    IN  Return(p, <<"local", SnapshotNameOf(name)>>)

\* LXDInstance.local_snapshot
LocalSnapshot(r, name, stateful, env) ==
    LET s == Shutdown(Clean(r, env), TRUE, env)
        p == Subp(s, "snapshot", SnapshotNameOf(name),
                  IF stateful THEN "--stateful" ELSE "")
    IN  Return(p, <<SnapshotNameOf(name)>>)

(***************************************************************************)
(* The handle's calls as actions.                                          *)
(***************************************************************************)
Envs == [waitFails : BOOLEAN, cleanFails : BOOLEAN]

NoEnv == [waitFails |-> FALSE, cleanFails |-> FALSE]

\* The run a call starts from: the daemon as it is, nothing issued yet.
Begin ==
    [inst |-> lxdInst, eph |-> lxdEphemeral, shape |-> lxdShape,
     name |-> lxdName, images |-> lxdImages, snaps |-> lxdSnaps,
     log |-> <<>>, out |-> <<>>, val |-> "", ret |-> <<>>, err |-> "none"]

\* The call has returned or raised: its effects are the daemon's new state.
Finish(op, wait, name, env, post) ==
    /\ lxdInst' = post.inst
    /\ lxdImages' = post.images
    /\ lxdSnaps' = post.snaps
    /\ lxdDeleted' = (lxdDeleted \/ (op = "delete" /\ lxdInst # "Absent"
                                     /\ post.inst = "Absent"))
    /\ lxdCall' = [op |-> op, wait |-> wait, name |-> name, env |-> env,
                   pre |-> Begin, post |-> post]
    /\ lxdName' = post.name
    /\ UNCHANGED <<lxdEphemeral, lxdShape>>
    /\ UNCHANGED <<gceVars, ec2Vars, apiVars, batVars>>

LxdDeleteSnapshot ==
    \E name \in SnapshotNames :
        Finish("delete_snapshot", FALSE, name, NoEnv,
               DeleteSnapshot(Begin, SnapshotNameOf(name)))

LxdEdit ==
    Finish("edit", FALSE, "None", NoEnv, Edit(Begin, "user.user-data", "x"))

LxdRestore ==
    \E name \in SnapshotNames :
        Finish("restore", FALSE, name, NoEnv,
               Restore(Begin, SnapshotNameOf(name)))

\* instance.state read by a caller
LxdReadState ==
    Finish("state", FALSE, "None", NoEnv, State(Begin))

\* instance.ephemeral read by a caller
LxdReadEphemeral ==
    Finish("ephemeral", FALSE, "None", NoEnv, Ephemeral(Begin))

LxdStart ==
    \E wait \in BOOLEAN, wf \in BOOLEAN :
        LET env == [NoEnv EXCEPT !.waitFails = wf]
        IN  Finish("start", wait, "None", env, Start(Begin, wait, env))

LxdShutdown ==
    \E wait \in BOOLEAN :
        Finish("shutdown", wait, "None", NoEnv, Shutdown(Begin, wait, NoEnv))

LxdRestart ==
    \E wait \in BOOLEAN, wf \in BOOLEAN :
        LET env == [NoEnv EXCEPT !.waitFails = wf]
        IN  Finish("restart", wait, "None", env, Restart(Begin, wait, env))

LxdDelete ==
    \E wait \in BOOLEAN :
        Finish("delete", wait, "None", NoEnv, Delete(Begin, wait))

LxdSnapshot ==
    \E name \in SnapshotNames, cf \in BOOLEAN :
        LET env == [NoEnv EXCEPT !.cleanFails = cf]
        IN  Finish("snapshot", TRUE, name, env, Snapshot(Begin, name, env))

LxdLocalSnapshot ==
    \E name \in SnapshotNames, stateful \in BOOLEAN, cf \in BOOLEAN :
        LET env == [NoEnv EXCEPT !.cleanFails = cf]
        IN  Finish("local_snapshot", stateful, name, env,
                   LocalSnapshot(Begin, name, stateful, env))

\* The daemon's status text changes shape (a field missing from its output).
LxdInfoChanges ==
    /\ \E shape \in InfoShapes : lxdShape' = shape /\ shape # lxdShape
    /\ UNCHANGED <<lxdInst, lxdEphemeral, lxdImages, lxdSnaps, lxdDeleted,
                   lxdName, lxdCall>>
    /\ UNCHANGED <<gceVars, ec2Vars, apiVars, batVars>>

NoCall ==
    LET r0 == [inst |-> "Stopped", eph |-> FALSE, shape |-> "full",
               name |-> HandleName, images |-> {},
               snaps |-> {}, log |-> <<>>, out |-> <<>>, val |-> "", ret |-> <<>>,
               err |-> "none"]
    IN  [op |-> "none", wait |-> FALSE, name |-> "None", env |-> NoEnv,
         pre |-> r0, post |-> r0]

\* LXDInstance(name): a handle on a container that exists; an ephemeral one
\* exists only while it runs.
LxdInit ==
    /\ lxdEphemeral \in BOOLEAN
    /\ lxdInst \in {"Running", "Stopped"}
    /\ lxdEphemeral => lxdInst = "Running"
    /\ lxdShape = "full"
    /\ lxdImages = {}
    /\ lxdSnaps = {}
    /\ lxdDeleted = FALSE
    /\ lxdName = HandleName
    /\ lxdCall = NoCall

LxdNext ==
    \/ LxdStart
    \/ LxdShutdown
    \/ LxdRestart
    \/ LxdDelete
    \/ LxdSnapshot
    \/ LxdLocalSnapshot
    \/ LxdDeleteSnapshot
    \/ LxdEdit
    \/ LxdRestore
    \/ LxdReadState
    \/ LxdReadEphemeral
    \/ LxdInfoChanges

(***************************************************************************)
(* GCE.launch and GCE._wait_for_operation, one step per backend request.   *)
(***************************************************************************)
ErrFields == {"absent", "empty", "set"}

NoResult == [status |-> "none", error |-> "absent"]

Bump(n) == IF n < CounterCap THEN n + 1 ELSE n

\* The operation resource as zoneOperations().get reports it on probe n.
OperationResult(n) ==
    IF gceDoneAt # 0 /\ n >= gceDoneAt
    THEN [status |-> "DONE", error |-> gceErrField]
    ELSE [status |-> "RUNNING", error |-> "absent"]

\* launch, up to and including instances().insert(...).execute(); the
\* request is refused or accepted, and an accepted one names an operation.
GceLaunch ==
    /\ gcePc = "idle"
    /\ \E wait \in BOOLEAN, accepted \in BOOLEAN,
          doneAt \in 0..MaxDoneAt, errField \in ErrFields :
        /\ gceWait' = wait
        /\ gceInserts' = 1
        /\ IF accepted
           THEN /\ gcePc' = "sleep"
                /\ gceDoneAt' = doneAt
                /\ gceErrField' = errField
                /\ gceRaised' = "none"
           ELSE /\ gcePc' = "raised"
                /\ gceDoneAt' = 0
                /\ gceErrField' = "absent"
                /\ gceRaised' = "HttpError"
    /\ gceResult' = NoResult
    /\ gceWaitRet' = NoResult
    /\ gceRet' = "none"
    /\ gceSleeps' = 0
    /\ gceProbes' = 0
    /\ gceGets' = 0
    /\ UNCHANGED <<gceStub, lxdVars, ec2Vars, apiVars, batVars>>

\* _wait_for_operation: time.sleep(5) at the top of the loop
GceSleep ==
    /\ gcePc = "sleep"
    /\ gcePc' = "probe"
    /\ gceSleeps' = Bump(gceSleeps)
    /\ UNCHANGED <<gceWait, gceDoneAt, gceErrField, gceResult, gceWaitRet,
                   gceRaised, gceRet, gceProbes, gceInserts, gceGets>>
    /\ UNCHANGED <<gceStub, lxdVars, ec2Vars, apiVars, batVars>>

\* A probe that takes whatever the operation reports for a terminal result.
GceProbeFalseReady ==
    /\ gcePc = "probe"
    /\ gceProbes' = Bump(gceProbes)
    /\ gceResult' = OperationResult(gceProbes + 1)
    /\ gceWaitRet' = gceResult'
    /\ gcePc' = "get"
    /\ UNCHANGED <<gceWait, gceDoneAt, gceErrField, gceRaised, gceRet,
                   gceSleeps, gceInserts, gceGets>>
    /\ UNCHANGED <<gceStub, lxdVars, ec2Vars, apiVars, batVars>>

\* A probe that returns the terminal result whether or not it has an error.
GceProbeSwallowsError ==
    /\ gcePc = "probe"
    /\ gceProbes' = Bump(gceProbes)
    /\ gceResult' = OperationResult(gceProbes + 1)
    /\ IF gceResult'.status = "DONE"
       THEN gcePc' = "get" /\ gceWaitRet' = gceResult'
       ELSE gcePc' = "sleep" /\ gceWaitRet' = gceWaitRet
    /\ UNCHANGED <<gceWait, gceDoneAt, gceErrField, gceRaised, gceRet,
                   gceSleeps, gceInserts, gceGets>>
    /\ UNCHANGED <<gceStub, lxdVars, ec2Vars, apiVars, batVars>>

\* _wait_for_operation: zoneOperations().get(...).execute() and the test of
\* its result
GceProbe ==
    /\ gcePc = "probe"
    /\ gceProbes' = Bump(gceProbes)
    /\ gceResult' = OperationResult(gceProbes + 1)
    /\ IF gceResult'.status = "DONE"
       THEN IF gceResult'.error # "absent"
            THEN /\ gcePc' = "raised"
                 /\ gceRaised' = gceResult'.error
                 /\ gceWaitRet' = gceWaitRet
            ELSE /\ gcePc' = "get"
                 /\ gceWaitRet' = gceResult'
                 /\ gceRaised' = gceRaised
       ELSE /\ gcePc' = "sleep"
            /\ UNCHANGED <<gceWaitRet, gceRaised>>
    /\ UNCHANGED <<gceWait, gceDoneAt, gceErrField, gceRet, gceSleeps,
                   gceInserts, gceGets>>
    /\ UNCHANGED <<gceStub, lxdVars, ec2Vars, apiVars, batVars>>

\* launch, after the wait: instances().get(...).execute(), the natIP is
\* logged, and the method ends without a return statement.
GceGet ==
    /\ gcePc = "get"
    /\ gcePc' = "returned"
    /\ gceGets' = gceGets + 1
    /\ gceRet' = "None"
    /\ UNCHANGED <<gceWait, gceDoneAt, gceErrField, gceResult, gceWaitRet,
                   gceRaised, gceSleeps, gceProbes, gceInserts>>
    /\ UNCHANGED <<gceStub, lxdVars, ec2Vars, apiVars, batVars>>

\* The caller has its answer; the backend is ready for another launch.
GceCallEnds ==
    /\ gcePc \in {"returned", "raised"}
    /\ gcePc' = "idle"
    /\ UNCHANGED <<gceWait, gceDoneAt, gceErrField, gceResult, gceWaitRet,
                   gceRaised, gceRet, gceSleeps, gceProbes, gceInserts, gceGets>>
    /\ UNCHANGED <<gceStub, lxdVars, ec2Vars, apiVars, batVars>>

\* The methods of GCE whose body is `raise NotImplementedError`.
UnsupportedOps ==
    {"released_image", "image_serial", "delete_image", "get_instance", "snapshot"}

NoStub == [op |-> "none", err |-> "none", ret |-> "none"]

\* A stub that reaches the backend and returns None instead of raising.
GceUnsupportedReturnsNone ==
    /\ gcePc = "idle"
    /\ \E op \in UnsupportedOps :
        gceStub' = [op |-> op, err |-> "none", ret |-> "None"]
    /\ gceGets' = gceGets + 1
    /\ UNCHANGED <<gcePc, gceWait, gceDoneAt, gceErrField, gceResult, gceWaitRet,
                   gceRaised, gceRet, gceSleeps, gceProbes, gceInserts>>
    /\ UNCHANGED <<lxdVars, ec2Vars, apiVars, batVars>>

\* released_image, image_serial, delete_image, get_instance, snapshot: each
\* raises NotImplementedError as its first and only statement.
GceUnsupported ==
    /\ gcePc = "idle"
    /\ \E op \in UnsupportedOps :
        gceStub' = [op |-> op, err |-> "NotImplementedError", ret |-> "none"]
    /\ UNCHANGED <<gcePc, gceWait, gceDoneAt, gceErrField, gceResult, gceWaitRet,
                   gceRaised, gceRet, gceSleeps, gceProbes, gceInserts, gceGets>>
    /\ UNCHANGED <<lxdVars, ec2Vars, apiVars, batVars>>

GceInit ==
    /\ gcePc = "idle"
    /\ gceWait = TRUE
    /\ gceDoneAt = 0
    /\ gceErrField = "absent"
    /\ gceResult = NoResult
    /\ gceWaitRet = NoResult
    /\ gceRaised = "none"
    /\ gceRet = "none"
    /\ gceSleeps = 0
    /\ gceProbes = 0
    /\ gceInserts = 0
    /\ gceGets = 0
    /\ gceStub = NoStub

GceNext ==
    \/ GceUnsupported
    \/ GceLaunch
    \/ GceSleep
    \/ GceProbe
    \/ GceGet
    \/ GceCallEnds

(***************************************************************************)
(* EC2.snapshot, one step per call the coordinator makes.                  *)
(***************************************************************************)
\* EC2Instance.shutdown(wait): a no-op on a stopped instance; otherwise the
\* stop is requested and, with wait, the stopped state is waited for.
InstShutdown(st, wait) ==
    IF st = "stopped" THEN "stopped" ELSE IF wait THEN "stopped" ELSE "stopping"

\* EC2Instance.start(wait): a no-op on a running instance; otherwise the
\* start is requested and, with wait, the instance is waited for.
InstStart(st, wait) ==
    IF st = "running" THEN "running" ELSE IF wait THEN "running" ELSE "pending"

\* The error a step raises ends the call where it stands.
Ec2Raise(err) ==
    /\ ec2Pc' = "raised"
    /\ ec2Raised' = err

\* snapshot(instance, clean) is called; `if clean:` picks the first step.
Ec2Snapshot ==
    /\ ec2Pc = "idle"
    /\ ec2DelPc = "idle"
    /\ ec2NextId <= Cardinality(BaseImages) + MaxSnapshots
    /\ \E clean \in BOOLEAN :
        /\ ec2Clean' = clean
        /\ ec2Pc' = IF clean THEN "clean" ELSE "shutdown"
    /\ ec2PreInst' = ec2Inst
    /\ ec2Image' = 0
    /\ ec2Log' = <<>>
    /\ ec2Ret' = 0
    /\ ec2Raised' = "none"
    /\ UNCHANGED <<ec2Inst, ec2InstImage, ec2Registered, ec2Available, ec2NextId>>
    /\ UNCHANGED <<ec2DelVars, lxdVars, gceVars, apiVars, batVars>>

\* instance.clean(): the hygiene commands run on a running instance and may
\* fail to run at all on any other.
Ec2Clean ==
    /\ ec2Pc = "clean"
    /\ ec2Log' = Append(ec2Log, "clean")
    /\ \E ok \in BOOLEAN :
        IF ok \/ ec2Inst = "running"
        THEN ec2Pc' = "shutdown" /\ ec2Raised' = ec2Raised
        ELSE Ec2Raise("CommandError")
    /\ UNCHANGED <<ec2Clean, ec2Inst, ec2InstImage, ec2PreInst, ec2Registered,
                   ec2Available, ec2NextId, ec2Image, ec2Ret>>
    /\ UNCHANGED <<ec2DelVars, lxdVars, gceVars, apiVars, batVars>>

\* A shutdown that does not wait for the stopped state.
Ec2ShutdownNoWait ==
    /\ ec2Pc = "shutdown"
    /\ ec2Log' = Append(ec2Log, "shutdown(wait=False)")
    /\ ec2Inst' = InstShutdown(ec2Inst, FALSE)
    /\ ec2Pc' = "create_image"
    /\ UNCHANGED <<ec2Clean, ec2InstImage, ec2PreInst, ec2Registered,
                   ec2Available, ec2NextId, ec2Image, ec2Ret, ec2Raised>>
    /\ UNCHANGED <<ec2DelVars, lxdVars, gceVars, apiVars, batVars>>

\* instance.shutdown(wait=True)
Ec2Shutdown ==
    /\ ec2Pc = "shutdown"
    /\ ec2Log' = Append(ec2Log, "shutdown(wait=True)")
    /\ \E ok \in BOOLEAN :
        IF ok
        THEN /\ ec2Inst' = InstShutdown(ec2Inst, TRUE)
             /\ ec2Pc' = "create_image"
             /\ ec2Raised' = ec2Raised
        ELSE /\ Ec2Raise("WaiterError")
             /\ ec2Inst' = ec2Inst
    /\ UNCHANGED <<ec2Clean, ec2InstImage, ec2PreInst, ec2Registered,
                   ec2Available, ec2NextId, ec2Image, ec2Ret>>
    /\ UNCHANGED <<ec2DelVars, lxdVars, gceVars, apiVars, batVars>>

\* response = self.client.create_image(...); image = self.resource.Image(id):
\* EC2 registers a new image under an id of its own choosing.
Ec2CreateImage ==
    /\ ec2Pc = "create_image"
    /\ ec2Log' = Append(ec2Log, "create_image")
    /\ \E ok \in BOOLEAN :
        IF ok
        THEN /\ ec2Image' = ec2NextId
             /\ ec2NextId' = ec2NextId + 1
             /\ ec2Registered' = ec2Registered \cup {ec2NextId}
             /\ ec2Pc' = "wait_exists"
             /\ ec2Raised' = ec2Raised
        ELSE /\ Ec2Raise("ClientError")
             /\ UNCHANGED <<ec2Image, ec2NextId, ec2Registered>>
    /\ UNCHANGED <<ec2Clean, ec2Inst, ec2InstImage, ec2PreInst, ec2Available, ec2Ret>>
    /\ UNCHANGED <<ec2DelVars, lxdVars, gceVars, apiVars, batVars>>

\* _wait_for_snapshot: image.wait_until_exists()
Ec2WaitExists ==
    /\ ec2Pc = "wait_exists"
    /\ ec2Log' = Append(ec2Log, "wait_until_exists")
    /\ \E ok \in BOOLEAN :
        IF ok
        THEN ec2Pc' = "wait_available" /\ ec2Raised' = ec2Raised
        ELSE Ec2Raise("WaiterError")
    /\ UNCHANGED <<ec2Clean, ec2Inst, ec2InstImage, ec2PreInst, ec2Registered,
                   ec2Available, ec2NextId, ec2Image, ec2Ret>>
    /\ UNCHANGED <<ec2DelVars, lxdVars, gceVars, apiVars, batVars>>

\* _wait_for_snapshot: get_waiter('image_available').wait(ImageIds=[image.id])
Ec2WaitAvailable ==
    /\ ec2Pc = "wait_available"
    /\ ec2Log' = Append(ec2Log, "wait_image_available")
    /\ \E ok \in BOOLEAN :
        IF ok
        THEN /\ ec2Available' = ec2Available \cup {ec2Image}
             /\ ec2Pc' = "reload"
             /\ ec2Raised' = ec2Raised
        ELSE /\ Ec2Raise("WaiterError")
             /\ ec2Available' = ec2Available
    /\ UNCHANGED <<ec2Clean, ec2Inst, ec2InstImage, ec2PreInst, ec2Registered,
                   ec2NextId, ec2Image, ec2Ret>>
    /\ UNCHANGED <<ec2DelVars, lxdVars, gceVars, apiVars, batVars>>

\* _wait_for_snapshot: image.reload()
Ec2Reload ==
    /\ ec2Pc = "reload"
    /\ ec2Log' = Append(ec2Log, "reload")
    /\ ec2Pc' = "start"
    /\ UNCHANGED <<ec2Clean, ec2Inst, ec2InstImage, ec2PreInst, ec2Registered,
                   ec2Available, ec2NextId, ec2Image, ec2Ret, ec2Raised>>
    /\ UNCHANGED <<ec2DelVars, lxdVars, gceVars, apiVars, batVars>>

\* A snapshot that goes on to its return without starting the instance.
Ec2StartSkipped ==
    /\ ec2Pc = "start"
    /\ ec2Pc' = "return"
    /\ UNCHANGED <<ec2Clean, ec2Inst, ec2InstImage, ec2PreInst, ec2Registered,
                   ec2Available, ec2NextId, ec2Image, ec2Log, ec2Ret, ec2Raised>>
    /\ UNCHANGED <<ec2DelVars, lxdVars, gceVars, apiVars, batVars>>

\* instance.start(wait=True)
Ec2Start ==
    /\ ec2Pc = "start"
    /\ ec2Log' = Append(ec2Log, "start(wait=True)")
    /\ \E ok \in BOOLEAN :
        IF ok
        THEN /\ ec2Inst' = InstStart(ec2Inst, TRUE)
             /\ ec2Pc' = "return"
             /\ ec2Raised' = ec2Raised
        ELSE /\ Ec2Raise("WaiterError")
             /\ ec2Inst' = ec2Inst
    /\ UNCHANGED <<ec2Clean, ec2InstImage, ec2PreInst, ec2Registered,
                   ec2Available, ec2NextId, ec2Image, ec2Ret>>
    /\ UNCHANGED <<ec2DelVars, lxdVars, gceVars, apiVars, batVars>>

\* return image.id
Ec2Return ==
    /\ ec2Pc = "return"
    /\ ec2Ret' = ec2Image
    /\ ec2Pc' = "returned"
    /\ UNCHANGED <<ec2Clean, ec2Inst, ec2InstImage, ec2PreInst, ec2Registered,
                   ec2Available, ec2NextId, ec2Image, ec2Log, ec2Raised>>
    /\ UNCHANGED <<ec2DelVars, lxdVars, gceVars, apiVars, batVars>>

\* The caller has its answer and may call again.
Ec2CallEnds ==
    /\ ec2Pc \in {"returned", "raised"}
    /\ ec2Pc' = "idle"
    /\ UNCHANGED <<ec2Clean, ec2Inst, ec2InstImage, ec2PreInst, ec2Registered,
                   ec2Available, ec2NextId, ec2Image, ec2Log, ec2Ret, ec2Raised>>
    /\ UNCHANGED <<ec2DelVars, lxdVars, gceVars, apiVars, batVars>>

\* Between snapshots the caller itself shuts the instance down, or starts it.
Ec2CallerShutdown ==
    /\ ec2Pc = "idle"
    /\ ec2DelPc = "idle"
    /\ ec2Inst = "running"
    /\ ec2Inst' = InstShutdown(ec2Inst, TRUE)
    /\ UNCHANGED <<ec2Pc, ec2Clean, ec2InstImage, ec2PreInst, ec2Registered,
                   ec2Available, ec2NextId, ec2Image, ec2Log, ec2Ret, ec2Raised>>
    /\ UNCHANGED <<ec2DelVars, lxdVars, gceVars, apiVars, batVars>>

Ec2CallerStart ==
    /\ ec2Pc = "idle"
    /\ ec2DelPc = "idle"
    /\ ec2Inst = "stopped"
    /\ ec2Inst' = InstStart(ec2Inst, TRUE)
    /\ UNCHANGED <<ec2Pc, ec2Clean, ec2InstImage, ec2PreInst, ec2Registered,
                   ec2Available, ec2NextId, ec2Image, ec2Log, ec2Ret, ec2Raised>>
    /\ UNCHANGED <<ec2DelVars, lxdVars, gceVars, apiVars, batVars>>

\* An instance launched from one of the images that exist.
(***************************************************************************)
(* EC2.delete_image, one step per request.                                 *)
(***************************************************************************)
\* The id of the EBS snapshot backing an image EC2 made with create_image.
SnapOf(image) == <<"snap", image>>

\* The image ids create_image has handed out.
CreatedImages == (Cardinality(BaseImages) + 1)..(ec2NextId - 1)

Ec2DelRaise ==
    /\ ec2DelPc' = "raised"

\* delete_image(image_id) is called and reads
\* image.block_device_mappings[0]['Ebs']['SnapshotId']; an image EC2 no
\* longer has cannot be read.
Ec2DeleteImage ==
    /\ ec2Pc = "idle"
    /\ ec2DelPc = "idle"
    /\ \E image \in CreatedImages :
        /\ ec2DelImage' = image
        /\ IF image \in ec2Registered
           THEN ec2DelSnap' = SnapOf(image) /\ ec2DelPc' = "deregister"
           ELSE ec2DelSnap' = <<>> /\ Ec2DelRaise
    /\ ec2DelLog' = <<"read_snapshot_id">>
    /\ UNCHANGED ec2SnapsDeleted
    /\ UNCHANGED <<ec2Pc, ec2Clean, ec2Inst, ec2InstImage, ec2PreInst, ec2Registered,
                   ec2Available, ec2NextId, ec2Image, ec2Log, ec2Ret, ec2Raised>>
    /\ UNCHANGED <<lxdVars, gceVars, apiVars, batVars>>

\* A deregistration whose failure is ignored.
Ec2DeregisterIgnoresFailure ==
    /\ ec2DelPc = "deregister"
    /\ ec2DelLog' = Append(ec2DelLog, "deregister_image")
    /\ \E ok \in BOOLEAN :
        /\ ec2DelPc' = "delete_snapshot"
        /\ IF ok
           THEN /\ ec2Registered' = ec2Registered \ {ec2DelImage}
                /\ ec2Available' = ec2Available \ {ec2DelImage}
           ELSE UNCHANGED <<ec2Registered, ec2Available>>
    /\ UNCHANGED <<ec2DelImage, ec2DelSnap, ec2SnapsDeleted>>
    /\ UNCHANGED <<ec2Pc, ec2Clean, ec2Inst, ec2InstImage, ec2PreInst, ec2NextId,
                   ec2Image, ec2Log, ec2Ret, ec2Raised>>
    /\ UNCHANGED <<lxdVars, gceVars, apiVars, batVars>>

\* client.deregister_image(ImageId=image_id)
Ec2Deregister ==
    /\ ec2DelPc = "deregister"
    /\ ec2DelLog' = Append(ec2DelLog, "deregister_image")
    /\ \E ok \in BOOLEAN :
        IF ok
        THEN /\ ec2Registered' = ec2Registered \ {ec2DelImage}
             /\ ec2Available' = ec2Available \ {ec2DelImage}
             /\ ec2DelPc' = "delete_snapshot"
        ELSE /\ Ec2DelRaise
             /\ UNCHANGED <<ec2Registered, ec2Available>>
    /\ UNCHANGED <<ec2DelImage, ec2DelSnap, ec2SnapsDeleted>>
    /\ UNCHANGED <<ec2Pc, ec2Clean, ec2Inst, ec2InstImage, ec2PreInst, ec2NextId,
                   ec2Image, ec2Log, ec2Ret, ec2Raised>>
    /\ UNCHANGED <<lxdVars, gceVars, apiVars, batVars>>

\* client.delete_snapshot(SnapshotId=snapshot_id), and the method ends
Ec2DeleteSnapshot ==
    /\ ec2DelPc = "delete_snapshot"
    /\ ec2DelLog' = Append(ec2DelLog, "delete_snapshot")
    /\ \E ok \in BOOLEAN :
        IF ok
        THEN /\ ec2SnapsDeleted' = ec2SnapsDeleted \cup {ec2DelSnap}
             /\ ec2DelPc' = "returned"
        ELSE /\ Ec2DelRaise
             /\ UNCHANGED ec2SnapsDeleted
    /\ UNCHANGED <<ec2DelImage, ec2DelSnap>>
    /\ UNCHANGED <<ec2Pc, ec2Clean, ec2Inst, ec2InstImage, ec2PreInst, ec2Registered,
                   ec2Available, ec2NextId, ec2Image, ec2Log, ec2Ret, ec2Raised>>
    /\ UNCHANGED <<lxdVars, gceVars, apiVars, batVars>>

\* The caller has delete_image's outcome and may call again.
Ec2DeleteCallEnds ==
    /\ ec2DelPc \in {"returned", "raised"}
    /\ ec2DelPc' = "idle"
    /\ UNCHANGED <<ec2DelImage, ec2DelSnap, ec2DelLog, ec2SnapsDeleted>>
    /\ UNCHANGED <<ec2Pc, ec2Clean, ec2Inst, ec2InstImage, ec2PreInst, ec2Registered,
                   ec2Available, ec2NextId, ec2Image, ec2Log, ec2Ret, ec2Raised>>
    /\ UNCHANGED <<lxdVars, gceVars, apiVars, batVars>>

Ec2Init ==
    /\ ec2Pc = "idle"
    /\ ec2Clean = TRUE
    /\ ec2Inst = "running"
    /\ ec2InstImage \in BaseImages
    /\ ec2PreInst = "running"
    /\ ec2Registered = BaseImages
    /\ ec2Available = BaseImages
    /\ ec2NextId = Cardinality(BaseImages) + 1
    /\ ec2Image = 0
    /\ ec2Log = <<>>
    /\ ec2Ret = 0
    /\ ec2Raised = "none"
    /\ ec2DelPc = "idle"
    /\ ec2DelImage = 0
    /\ ec2DelSnap = <<>>
    /\ ec2DelLog = <<>>
    /\ ec2SnapsDeleted = {}

Ec2Next ==
    \/ Ec2Snapshot
    \/ Ec2Clean
    \/ Ec2Shutdown
    \/ Ec2CreateImage
    \/ Ec2WaitExists
    \/ Ec2WaitAvailable
    \/ Ec2Reload
    \/ Ec2Start
    \/ Ec2Return
    \/ Ec2CallEnds
    \/ Ec2CallerShutdown
    \/ Ec2CallerStart
    \/ Ec2DeleteImage
    \/ Ec2Deregister
    \/ Ec2DeleteSnapshot
    \/ Ec2DeleteCallEnds

(***************************************************************************)
(* The specifications: one backend in use, the others as constructed.      *)
(***************************************************************************)
(***************************************************************************)
(* The EC2 object's calls other than snapshot: use_key, get_or_create_vpc, *)
(* launch and get_instance, each one action.  A dict is the set of its     *)
(* <<key, value>> items.                                                   *)
(***************************************************************************)
\* self.tag
Tag == "pycloudlib"

\* The name of the key pair a new cloud object holds.
DefaultKey == "default"

\* The name arguments of use_key; "" stands for Python's None.
KeyNames == {"", "ci-key"}

\* The public key file a new cloud object's key pair is built from.
DefaultKeyPath == "id_rsa.pub"

\* The public_key_path arguments of use_key and upload_key.
KeyPaths == {"ci.pub"}

\* KeyPair.public_key_content: what the file at the key pair's path holds.
Content(path) == "key in " \o path

\* What __init__ leaves in self.tag, self.region, self.client, self.resource.
ConstructedAttrs ==
    [tag |-> Tag, region |-> "session.region_name",
     client |-> "session.client('ec2')", resource |-> "session.resource('ec2')"]

VpcNames == {"vpc-a", "vpc-b"}

\* vpc=None
NoVpc == [id |-> 0, name |-> "", subnets |-> 0]

NoHandle == [id |-> 0, key |-> ""]

\* The extra keyword arguments a caller gives launch.
LaunchKwargs ==
    { {},
      {<<"Placement", "zone-b">>},
      {<<"SubnetId", "subnet-mine">>},
      {<<"SecurityGroupIds", "sg-mine">>, <<"Placement", "zone-b">>} }

Keys(d) == {p[1] : p \in d}

\* d[k] = v
Put(d, k, v) == {p \in d : p[1] # k} \cup {<<k, v>>}

\* for key, value in e.items(): d[key] = value
Update(d, e) == {p \in d : p[1] \notin Keys(e)} \cup e

\* The args dict of launch as create_instances receives it.
LaunchArgs(userData, vpc, kwargs) ==
    LET args == {<<"ImageId", "ami-1">>, <<"InstanceType", "t2.micro">>,
                 <<"KeyName", apiKeyPair>>, <<"MaxCount", "1">>,
                 <<"MinCount", "1">>, <<"TagSpecifications", Tag>>}
        withUserData == IF userData # "" THEN Put(args, "UserData", userData)
                        ELSE args
        withKwargs == Update(withUserData, kwargs)
    IN  IF vpc # NoVpc
        THEN Put(Put(withKwargs, "SubnetId", "subnet-" \o ToString(vpc.id)),
                 "SecurityGroupIds", "sg-" \o ToString(vpc.id))
        ELSE withKwargs

ApiCall(op, name, wait, vpc, kwargs, request, ret, vpcId, err) ==
    [op |-> op, name |-> name, wait |-> wait, vpc |-> vpc, kwargs |-> kwargs,
     request |-> request, ret |-> ret, vpcId |-> vpcId, err |-> err,
     preVpcs |-> {[id |-> v.id, name |-> v.name] : v \in apiVpcs},
     preKeyPair |-> apiKeyPair, path |-> "",
     waited |-> (op = "launch" /\ wait /\ err = "none")]

KeyCall(op, name, path, err) ==
    [ApiCall(op, name, FALSE, NoVpc, {}, {}, NoHandle, 0, err)
        EXCEPT !.path = path]

\* use_key that also renames the cloud object after the key.
Ec2UseKeyRetags ==
    /\ \E name \in KeyNames, path \in KeyPaths :
        LET used == IF name = "" THEN Tag ELSE name
        IN  /\ apiKeyPair' = used
            /\ apiKeyMaterial' = Content(path)
            /\ apiAttrs' = [apiAttrs EXCEPT !.tag = used]
            /\ apiCall' = KeyCall("use_key", name, path, "none")
    /\ UNCHANGED <<apiVpcs, apiHandles, apiProviderKeys>>
    /\ UNCHANGED <<lxdVars, gceVars, ec2Vars, batVars>>

\* EC2.use_key
Ec2UseKey ==
    /\ \E name \in KeyNames, path \in KeyPaths :
        LET used == IF name = "" THEN Tag ELSE name
        IN  /\ apiKeyPair' = used
            /\ apiKeyMaterial' = Content(path)
            /\ apiCall' = KeyCall("use_key", name, path, "none")
    /\ UNCHANGED <<apiVpcs, apiHandles, apiAttrs, apiProviderKeys>>
    /\ UNCHANGED <<lxdVars, gceVars, ec2Vars, batVars>>

\* EC2.upload_key: import_key_pair is sent the name as given and the material
\* of the key pair held before the call; boto3 refuses a KeyName of None and
\* EC2 refuses a name it already has; then use_key(public_key_path,
\* private_key_path, name).
Ec2UploadKey ==
    /\ \E name \in KeyNames, path \in KeyPaths :
        IF name = ""
        THEN /\ apiCall' = KeyCall("upload_key", name, path, "ParamValidationError")
             /\ UNCHANGED <<apiKeyPair, apiKeyMaterial, apiProviderKeys>>
        ELSE IF \E k \in apiProviderKeys : k[1] = name
        THEN /\ apiCall' = KeyCall("upload_key", name, path, "ClientError")
             /\ UNCHANGED <<apiKeyPair, apiKeyMaterial, apiProviderKeys>>
        ELSE /\ apiProviderKeys' = apiProviderKeys \cup {<<name, apiKeyMaterial>>}
             /\ apiKeyPair' = name
             /\ apiKeyMaterial' = Content(path)
             /\ apiCall' = KeyCall("upload_key", name, path, "none")
    /\ UNCHANGED <<apiVpcs, apiHandles, apiAttrs>>
    /\ UNCHANGED <<lxdVars, gceVars, ec2Vars, batVars>>

\* get_or_create_vpc that creates a VPC whether or not the name has one.
Ec2AlwaysCreateVpc ==
    /\ Cardinality(apiVpcs) <= Cardinality(VpcNames)
    /\ \E name \in VpcNames :
        LET id == Cardinality(apiVpcs) + 1
        IN  /\ apiVpcs' = apiVpcs \cup {[id |-> id, name |-> name, subnets |-> 1]}
            /\ apiCall' = ApiCall("get_or_create_vpc", name, FALSE, NoVpc, {},
                                  {}, NoHandle, id, "none")
    /\ UNCHANGED <<apiKeyPair, apiHandles, apiAttrs, apiKeyMaterial, apiProviderKeys>>
    /\ UNCHANGED <<lxdVars, gceVars, ec2Vars, batVars>>

\* EC2.get_or_create_vpc: describe_vpcs filtered on the Name tag; the first
\* match is wrapped, and only when there is none is a VPC created (with its
\* one subnet) and tagged with the name.
Ec2GetOrCreateVpc ==
    /\ \E name \in VpcNames :
        LET vpcs == {v \in apiVpcs : v.name = name}
            id == Cardinality(apiVpcs) + 1
        IN  IF vpcs # {}
            THEN /\ \E v \in vpcs :
                        apiCall' = ApiCall("get_or_create_vpc", name, FALSE,
                                           NoVpc, {}, {}, NoHandle, v.id, "none")
                 /\ apiVpcs' = apiVpcs
            ELSE /\ apiVpcs' = apiVpcs \cup
                                {[id |-> id, name |-> name, subnets |-> 1]}
                 /\ apiCall' = ApiCall("get_or_create_vpc", name, FALSE, NoVpc,
                                       {}, {}, NoHandle, id, "none")
    /\ UNCHANGED <<apiKeyPair, apiHandles, apiAttrs, apiKeyMaterial, apiProviderKeys>>
    /\ UNCHANGED <<lxdVars, gceVars, ec2Vars, batVars>>

\* Someone adds a subnet to a VPC.
Ec2SubnetAdded ==
    /\ \E v \in apiVpcs :
        /\ v.subnets < MaxSubnets
        /\ apiVpcs' = (apiVpcs \ {v}) \cup {[v EXCEPT !.subnets = v.subnets + 1]}
    /\ UNCHANGED <<apiKeyPair, apiHandles, apiCall, apiAttrs, apiKeyMaterial,
                   apiProviderKeys>>
    /\ UNCHANGED <<lxdVars, gceVars, ec2Vars, batVars>>

\* Someone removes a subnet from a VPC.
Ec2SubnetRemoved ==
    /\ \E v \in apiVpcs :
        /\ v.subnets > 0
        /\ apiVpcs' = (apiVpcs \ {v}) \cup {[v EXCEPT !.subnets = v.subnets - 1]}
    /\ UNCHANGED <<apiKeyPair, apiHandles, apiCall, apiAttrs, apiKeyMaterial,
                   apiProviderKeys>>
    /\ UNCHANGED <<lxdVars, gceVars, ec2Vars, batVars>>

\* launch that sends its request whatever the vpc's subnets are.
Ec2LaunchAnySubnets ==
    /\ Cardinality(apiHandles) < MaxInstances
    /\ \E userData \in {"", "#cloud-config"}, vpc \in {NoVpc} \cup apiVpcs,
          wait \in BOOLEAN, kwargs \in LaunchKwargs :
        LET handle == [id |-> Cardinality(apiHandles) + 1, key |-> apiKeyPair]
        IN  /\ apiHandles' = apiHandles \cup {handle}
            /\ apiCall' = ApiCall("launch", userData, wait, vpc, kwargs,
                                  LaunchArgs(userData, vpc, kwargs),
                                  handle, 0, "none")
    /\ UNCHANGED <<apiKeyPair, apiVpcs, apiAttrs, apiKeyMaterial, apiProviderKeys>>
    /\ UNCHANGED <<lxdVars, gceVars, ec2Vars, batVars>>

\* EC2.launch: the args dict is built, a vpc with other than one subnet is
\* refused, create_instances is sent the dict and the new instance is
\* wrapped with the key pair held now; with wait the call then blocks in
\* instance.wait(), which changes nothing here.
Ec2Launch ==
    /\ Cardinality(apiHandles) < MaxInstances
    /\ \E userData \in {"", "#cloud-config"}, vpc \in {NoVpc} \cup apiVpcs,
          wait \in BOOLEAN, kwargs \in LaunchKwargs :
        LET handle == [id |-> Cardinality(apiHandles) + 1, key |-> apiKeyPair]
        IN  IF vpc # NoVpc /\ vpc.subnets # 1
            THEN /\ apiHandles' = apiHandles
                 /\ apiCall' = ApiCall("launch", userData, wait, vpc, kwargs, {},
                                       NoHandle, 0, "RuntimeError")
            ELSE /\ apiHandles' = apiHandles \cup {handle}
                 /\ apiCall' = ApiCall("launch", userData, wait, vpc, kwargs,
                                       LaunchArgs(userData, vpc, kwargs),
                                       handle, 0, "none")
    /\ UNCHANGED <<apiKeyPair, apiVpcs, apiAttrs, apiKeyMaterial, apiProviderKeys>>
    /\ UNCHANGED <<lxdVars, gceVars, ec2Vars, batVars>>

\* EC2.get_instance, asked for an instance that launch returned
Ec2GetInstance ==
    /\ \E h \in apiHandles :
        apiCall' = ApiCall("get_instance", "", FALSE, NoVpc, {}, {},
                           [id |-> h.id, key |-> apiKeyPair], 0, "none")
    /\ UNCHANGED <<apiKeyPair, apiVpcs, apiHandles, apiAttrs, apiKeyMaterial,
                   apiProviderKeys>>
    /\ UNCHANGED <<lxdVars, gceVars, ec2Vars, batVars>>

ApiInit ==
    /\ apiKeyPair = DefaultKey
    /\ apiVpcs = {}
    /\ apiHandles = {}
    /\ apiCall = [op |-> "none", name |-> "", wait |-> FALSE, vpc |-> NoVpc,
                  kwargs |-> {}, request |-> {}, ret |-> NoHandle, vpcId |-> 0,
                  err |-> "none", preVpcs |-> {}, preKeyPair |-> DefaultKey,
                  path |-> "", waited |-> FALSE]
    /\ apiAttrs = ConstructedAttrs
    /\ apiKeyMaterial = Content(DefaultKeyPath)
    /\ apiProviderKeys = {}

ApiNext ==
    \/ Ec2UseKey
    \/ Ec2GetOrCreateVpc
    \/ Ec2SubnetAdded
    \/ Ec2SubnetRemoved
    \/ Ec2Launch
    \/ Ec2GetInstance

\* The calls of the EC2 object with the VPCs left as they were created.
KeysNext ==
    \/ Ec2UseKey
    \/ Ec2UploadKey
    \/ Ec2GetOrCreateVpc
    \/ Ec2Launch
    \/ Ec2GetInstance

(***************************************************************************)
(* launch_multiple of examples/ec2.py and examples/lxd.py: four loops       *)
(* (three for LXD) over the same list of instances, one step per call,     *)
(* while the backend brings instances up and takes them down on its own.   *)
(***************************************************************************)
Batch == 1..BatchSize

Did(op, i) == [op |-> op, i |-> i]

\* The loop moves to its next instance, or the next loop starts.
BatAdvance(loop, nextLoop) ==
    IF batI < BatchSize
    THEN batPc' = loop /\ batI' = batI + 1
    ELSE batPc' = nextLoop /\ batI' = 1

\* instances.append(<cloud>.launch(..., wait=False)): the create request is
\* accepted and the call returns with the instance still coming up.
BatLaunch ==
    /\ batPc = "launch"
    /\ batInst' = [batInst EXCEPT ![batI] = "pending"]
    /\ batLog' = Append(batLog, Did("launch", batI))
    /\ BatAdvance("launch", "wait")
    /\ UNCHANGED batBackend
    /\ UNCHANGED <<lxdVars, gceVars, ec2Vars, apiVars>>

\* The backend finishes bringing an instance up.
BatInstanceUp ==
    /\ \E i \in Batch :
        /\ batInst[i] = "pending"
        /\ batInst' = [batInst EXCEPT ![i] = "running"]
    /\ UNCHANGED <<batBackend, batPc, batI, batLog>>
    /\ UNCHANGED <<lxdVars, gceVars, ec2Vars, apiVars>>

\* instance.wait() is entered
BatWaitBegins ==
    /\ batPc = "wait"
    /\ batPc' = "waiting"
    /\ batLog' = Append(batLog, Did("wait", batI))
    /\ UNCHANGED <<batBackend, batI, batInst>>
    /\ UNCHANGED <<lxdVars, gceVars, ec2Vars, apiVars>>

\* instance.wait() returns: the instance is up
BatWaitEnds ==
    /\ batPc = "waiting"
    /\ batInst[batI] = "running"
    /\ BatAdvance("wait", "delete")
    /\ UNCHANGED <<batBackend, batInst, batLog>>
    /\ UNCHANGED <<lxdVars, gceVars, ec2Vars, apiVars>>

\* examples/ec2.py: instance.delete(wait=False), the terminate request is
\* accepted.  examples/lxd.py: instance.delete(), which is
\* LXDInstance.delete(wait=True): `lxc delete --force` removes the
\* container and wait_for_delete is entered (and returns at once).
BatDelete ==
    /\ batPc = "delete"
    /\ IF batBackend = "lxd"
       THEN /\ batInst' = [batInst EXCEPT ![batI] = "gone"]
            /\ batLog' = batLog \o <<Did("delete", batI),
                                      Did("wait_for_delete", batI)>>
            /\ BatAdvance("delete", "done")
       ELSE /\ batInst' = [batInst EXCEPT ![batI] = "deleting"]
            /\ batLog' = Append(batLog, Did("delete", batI))
            /\ BatAdvance("delete", "wait_for_delete")
    /\ UNCHANGED batBackend
    /\ UNCHANGED <<lxdVars, gceVars, ec2Vars, apiVars>>

\* The backend finishes taking an instance down.
BatInstanceGone ==
    /\ \E i \in Batch :
        /\ batInst[i] = "deleting"
        /\ batInst' = [batInst EXCEPT ![i] = "gone"]
    /\ UNCHANGED <<batBackend, batPc, batI, batLog>>
    /\ UNCHANGED <<lxdVars, gceVars, ec2Vars, apiVars>>

\* examples/ec2.py: instance.wait_for_delete() is entered
BatWaitForDeleteBegins ==
    /\ batPc = "wait_for_delete"
    /\ batPc' = "waiting_for_delete"
    /\ batLog' = Append(batLog, Did("wait_for_delete", batI))
    /\ UNCHANGED <<batBackend, batI, batInst>>
    /\ UNCHANGED <<lxdVars, gceVars, ec2Vars, apiVars>>

\* examples/ec2.py: instance.wait_for_delete() returns: the instance is gone
BatWaitForDeleteEnds ==
    /\ batPc = "waiting_for_delete"
    /\ batInst[batI] = "gone"
    /\ BatAdvance("wait_for_delete", "done")
    /\ UNCHANGED <<batBackend, batInst, batLog>>
    /\ UNCHANGED <<lxdVars, gceVars, ec2Vars, apiVars>>

BatInit ==
    /\ batBackend \in {"ec2", "lxd"}
    /\ batPc = "launch"
    /\ batI = 1
    /\ batInst = [i \in Batch |-> "none"]
    /\ batLog = <<>>

BatUnused == BatInit /\ batBackend = "ec2"

BatNext ==
    \/ BatLaunch
    \/ BatInstanceUp
    \/ BatWaitBegins
    \/ BatWaitEnds
    \/ BatDelete
    \/ BatInstanceGone
    \/ BatWaitForDeleteBegins
    \/ BatWaitForDeleteEnds

LxdUnused ==
    /\ lxdEphemeral = FALSE
    /\ lxdInst = "Stopped"
    /\ lxdShape = "full"
    /\ lxdImages = {}
    /\ lxdSnaps = {}
    /\ lxdDeleted = FALSE
    /\ lxdName = HandleName
    /\ lxdCall = NoCall

Ec2Unused == Ec2Init /\ ec2InstImage = 1

InitLXD == LxdInit /\ GceInit /\ Ec2Unused /\ ApiInit /\ BatUnused

SpecLXD == InitLXD /\ [][LxdNext]_vars

InitGCE == GceInit /\ LxdUnused /\ Ec2Unused /\ ApiInit /\ BatUnused

SpecGCE == InitGCE /\ [][GceNext]_vars

\* The wait loop is straight-line code of a running thread: a sleep that can
\* end does end, and a probe that can be made is made.
FairSpecGCE == SpecGCE /\ WF_vars(GceSleep) /\ WF_vars(GceProbe)

InitEC2 == Ec2Init /\ GceInit /\ LxdUnused /\ ApiInit /\ BatUnused

SpecEC2 == InitEC2 /\ [][Ec2Next]_vars

InitEC2Api == ApiInit /\ Ec2Unused /\ GceInit /\ LxdUnused /\ BatUnused

SpecEC2Api == InitEC2Api /\ [][ApiNext]_vars

SpecEC2Keys == InitEC2Api /\ [][KeysNext]_vars

InitBatch == BatInit /\ ApiInit /\ Ec2Unused /\ GceInit /\ LxdUnused

SpecBatch == InitBatch /\ [][BatNext]_vars
(***************************************************************************)
(* Claims about the LXD handle (checked under SpecLXD).                    *)
(***************************************************************************)
Ok(r) == r.err = "none"

LastIs(op) == lxdCall.op = op

\* The daemon's container, images and snapshots are as before the call.
DaemonUntouched(c) ==
    /\ c.post.inst = c.pre.inst
    /\ c.post.images = c.pre.images
    /\ c.post.snaps = c.pre.snaps

\* The call issued the read-only status probe and nothing else.
OnlyProbed(c) ==
    /\ Len(c.post.log) = 1
    /\ c.post.log[1].cmd = "info"

WithoutWaitForStop(log) == SelectSeq(log, LAMBDA e : e.cmd # "wait_for_stop")

\* The instance is Stopped right before an lxc start makes it Running.
StoppedBeforeRunning(pre, log) ==
    \E j \in 1..Len(log) :
        /\ log[j].cmd = "start" /\ log[j].post = "Running"
        /\ (IF j = 1 THEN pre ELSE log[j - 1].post) = "Stopped"

\* C3 as stated: restart(wait) issues the same sequence of commands and waits
\* as shutdown(wait) followed by start(wait), and ends in the same state.
C3_RestartEqualsShutdownStart ==
    LastIs("restart") =>
        LET q == ShutdownThenStart(lxdCall.pre, lxdCall.wait, lxdCall.env)
        IN  /\ lxdCall.post.log = q.log
            /\ lxdCall.post.inst = q.inst
            /\ lxdCall.post.err = q.err

\* C3 amended: restart(wait) issues the same lxc commands and readiness wait,
\* in the same order, as shutdown(wait) followed by start(wait), and ends in
\* the same instance state and outcome; the runs are identical when wait is
\* true, and differ when wait is false only in that restart enters the empty
\* wait_for_stop.  A restart that succeeds leaves the instance Running and
\* has it Stopped right before the lxc start.
C3_RestartSameCommands ==
    LastIs("restart") =>
        LET q == ShutdownThenStart(lxdCall.pre, lxdCall.wait, lxdCall.env)
        IN  /\ WithoutWaitForStop(lxdCall.post.log) = WithoutWaitForStop(q.log)
            /\ lxdCall.wait => lxdCall.post.log = q.log
            /\ lxdCall.post.inst = q.inst
            /\ lxdCall.post.err = q.err
            /\ Ok(lxdCall.post) =>
                  /\ lxdCall.post.inst = "Running"
                  /\ StoppedBeforeRunning(lxdCall.pre.inst, lxdCall.post.log)

C3_Witness ==
    /\ LastIs("restart") /\ ~lxdCall.wait
    /\ lxdCall.pre.inst = "Running" /\ lxdCall.pre.shape = "noStatus"
    /\ Ok(lxdCall.post) /\ lxdCall.post.inst = "Running"
    /\ Len(lxdCall.post.log) = 5

\* C4: a delete(wait) called after a delete has removed the instance
\* succeeds without error.
C4_SecondDeleteSucceeds ==
    (LastIs("delete") /\ lxdDeleted /\ lxdCall.pre.inst = "Absent")
        => Ok(lxdCall.post)

LifecycleOps == {"start", "shutdown", "restart", "snapshot", "local_snapshot"}

GcePolling == gcePc \in {"sleep", "probe"}

\* The wait has ended, by returning or by raising out of the loop.
GceWaitEnded ==
    \/ gcePc \in {"get", "returned"}
    \/ gcePc = "raised" /\ gceRaised # "HttpError"

\* C6: a wait on an operation that never reports DONE eventually ends (in a
\* timeout, the one outcome open to it) instead of polling forever.
C6_NeverDoneWaitEnds ==
    (GcePolling /\ gceDoneAt = 0) ~> ~GcePolling

\* C7: an operation that first reports DONE on its k-th probe ends the wait
\* after exactly k probes and k sleeps, one sleep before each probe; the wait
\* never ends before a probe has observed DONE and never probes after it.
C7_ExactProbeCount ==
    /\ GceWaitEnded =>
          /\ gceDoneAt # 0
          /\ gceProbes = gceDoneAt
          /\ gceSleeps = gceDoneAt
          /\ gceResult.status = "DONE"
    /\ gcePc \in {"get", "returned"} => gceWaitRet.status = "DONE"
    /\ (GcePolling /\ gceDoneAt # 0) =>
          /\ gceProbes < gceDoneAt
          /\ gceSleeps = gceProbes + (IF gcePc = "probe" THEN 1 ELSE 0)

C7_Witness ==
    /\ gcePc = "returned"
    /\ gceDoneAt = MaxDoneAt
    /\ gceProbes = MaxDoneAt
    /\ gceSleeps = MaxDoneAt

\* C8: a DONE result with a non-empty error field ends the wait in an error
\* carrying that error, never in a returned result; a DONE result without an
\* error field is returned; and launch, when the wait raises, makes no
\* instance lookup and returns nothing.
C8_OperationErrorSurfaced ==
    /\ (gcePc # "idle" /\ gceResult.status = "DONE" /\ gceResult.error = "set") =>
          /\ gcePc = "raised"
          /\ gceRaised = gceResult.error
          /\ gceWaitRet = NoResult
    /\ (gcePc # "idle" /\ gceResult.status = "DONE" /\ gceResult.error = "absent") =>
          /\ gcePc \in {"get", "returned"}
          /\ gceWaitRet = gceResult
          /\ gceRaised = "none"
    /\ gcePc = "raised" =>
          /\ gceGets = 0
          /\ gceRet = "none"

C8_Witness ==
    /\ gcePc = "raised"
    /\ gceResult = [status |-> "DONE", error |-> "set"]
    /\ gceRaised = "set"
    /\ gceProbes = 2
    /\ gceGets = 0

(***************************************************************************)
(* Claims about EC2.snapshot.                                              *)
(***************************************************************************)
\* The snapshot protocol, in the order of its steps.
SnapshotProtocol(clean) ==
    (IF clean THEN <<"clean">> ELSE <<>>) \o
    <<"shutdown(wait=True)", "create_image", "wait_until_exists",
      "wait_image_available", "reload", "start(wait=True)">>

IsPrefix(a, b) == Len(a) <= Len(b) /\ a = SubSeq(b, 1, Len(a))

\* C9: snapshot(instance, clean) makes its calls in the protocol's order:
\* clean first, and only if clean is set; shutdown with wait; create_image,
\* once; the wait for the image to exist and to be available; start with
\* wait; and only then returns the image id.  At every point of a call the
\* calls made so far are a prefix of the protocol.
C9_SnapshotProtocolOrder ==
    /\ IsPrefix(ec2Log, SnapshotProtocol(ec2Clean))
    /\ ec2Pc \in {"return", "returned"} => ec2Log = SnapshotProtocol(ec2Clean)
    /\ ec2Pc = "returned" => (ec2Ret = ec2Image /\ ec2Image # 0)
    /\ ec2Pc \notin {"returned", "idle"} => ec2Ret = 0

C9_Witness ==
    /\ ec2Pc = "returned"
    /\ ec2Clean
    /\ Len(ec2Log) = 7
    /\ ec2Ret # 0

\* C10: after snapshot(handle, clean=true) succeeds the instance is running,
\* whatever it was before the call, and the id returned is not the id of the
\* image the instance was launched from.
C10_SnapshotPostcondition ==
    (ec2Pc = "returned" /\ ec2Clean) =>
        /\ ec2Inst = "running"
        /\ ec2Ret # ec2InstImage

C10_Witness ==
    /\ ec2Pc = "returned"
    /\ ec2Clean
    /\ ec2PreInst = "stopped"
    /\ ec2Inst = "running"
    /\ ec2Ret \notin BaseImages

(***************************************************************************)
(* Claims about the snapshot protocol's failure path and its last step.    *)
(***************************************************************************)
Made(call) == \E i \in 1..Len(ec2Log) : ec2Log[i] = call

\* C11: no failed snapshot returns to its caller with the instance shut down
\* by the snapshot, the capture step reached, the instance still stopped and
\* no start of it attempted.
C11_FailedSnapshotRestarts ==
    ~ /\ ec2Pc = "raised"
      /\ Made("create_image")
      /\ ec2Inst = "stopped"
      /\ ~Made("start(wait=True)")

\* C12: after snapshot(snapshot_name) succeeds on an instance that was
\* Running, the instance has been restarted and is Running again.
C12_LxdSnapshotLeavesRunning ==
    (LastIs("snapshot") /\ lxdCall.pre.inst = "Running" /\ Ok(lxdCall.post))
        => lxdCall.post.inst = "Running"

C15_GceLaunchNoWaitNoPolling ==
    (gcePc = "returned" /\ ~gceWait) => (gceProbes = 0 /\ gceSleeps = 0)

(***************************************************************************)
(* Claims about the status probes.                                         *)
(***************************************************************************)
\* The value of the first "<field>: ..." line of the text, "" if none.
FirstOf(field, text) ==
    IF \E i \in 1..Len(text) : text[i][1] = field
    THEN text[CHOOSE i \in 1..Len(text) :
                /\ text[i][1] = field
                /\ \A j \in 1..(i - 1) : text[j][1] # field][2]
    ELSE ""

ProbedText == LxcInfoText(lxdCall.pre.inst, lxdCall.pre.eph, lxdCall.pre.shape)

\* C20: on a container that exists, reading state or ephemeral never raises;
\* state is 'Unknown' when the text has no Status field and ephemeral is
\* False when it has no Type field; when the field is there the value of
\* its first occurrence decides the result; and after either read the
\* handle's delete still removes the container.
C20_DegradedProbeNeverRaises ==
    /\ (LastIs("state") /\ lxdCall.pre.inst # "Absent") =>
          /\ Ok(lxdCall.post)
          /\ lxdCall.post.inst = lxdCall.pre.inst
          /\ lxdCall.post.val =
                IF FirstOf("Status", ProbedText) = "" THEN "Unknown"
                ELSE FirstOf("Status", ProbedText)
          /\ lxdCall.pre.shape = "noStatus" => lxdCall.post.val = "Unknown"
          /\ \A wait \in BOOLEAN :
                Ok(Delete(Begin, wait)) /\ Delete(Begin, wait).inst = "Absent"
    /\ (LastIs("ephemeral") /\ lxdCall.pre.inst # "Absent") =>
          /\ Ok(lxdCall.post)
          /\ lxdCall.post.inst = lxdCall.pre.inst
          /\ lxdCall.post.val =
                IF FirstOf("Type", ProbedText) = "ephemeral" THEN "True"
                ELSE "False"
          /\ lxdCall.pre.shape = "noType" => lxdCall.post.val = "False"
          /\ \A wait \in BOOLEAN :
                Ok(Delete(Begin, wait)) /\ Delete(Begin, wait).inst = "Absent"

C20_Witness ==
    /\ LastIs("state")
    /\ lxdCall.pre.inst = "Running"
    /\ lxdCall.pre.shape = "noStatus"
    /\ lxdCall.post.val = "Unknown"
    /\ lxdInst = "Running"

(***************************************************************************)
(* Claims about the state an instance is captured in.                      *)
(***************************************************************************)
CaptureCommands == {"publish", "snapshot"}

\* C13: in every LXDInstance.snapshot and local_snapshot, the capture
\* command (lxc publish, lxc snapshot) is issued after the shutdown step and
\* while the container is in the Stopped state.
C13_CaptureOnlyWhileStopped ==
    (LastIs("snapshot") \/ LastIs("local_snapshot")) =>
        \A i \in 1..Len(lxdCall.post.log) :
            lxdCall.post.log[i].cmd \in CaptureCommands =>
                /\ i > 1
                /\ lxdCall.post.log[i - 1].post = "Stopped"

(***************************************************************************)
(* Claims about the EC2 object's lookups and launch requests.              *)
(***************************************************************************)
ApiLastIs(op) == apiCall.op = op

Named(vpcs, name) == {v \in vpcs : v.name = name}

Ids(vpcs) == {v.id : v \in vpcs}

\* C17: at most one VPC exists per name; get_or_create_vpc returns the id of
\* the VPC of that name; and when the name already had a VPC the call
\* creates nothing and returns that VPC's id.
C17_GetOrCreateVpcIdempotent ==
    /\ \A v, w \in apiVpcs : (v.name = w.name \/ v.id = w.id) => v = w
    /\ ApiLastIs("get_or_create_vpc") =>
          /\ apiCall.err = "none"
          /\ apiCall.vpcId \in Ids(Named(apiVpcs, apiCall.name))
          /\ Named(apiCall.preVpcs, apiCall.name) # {} =>
                /\ Ids(apiVpcs) = Ids(apiCall.preVpcs)
                /\ apiCall.vpcId \in Ids(Named(apiCall.preVpcs, apiCall.name))

C17_Witness ==
    /\ ApiLastIs("get_or_create_vpc")
    /\ Named(apiCall.preVpcs, apiCall.name) # {}
    /\ apiCall.vpcId \in Ids(Named(apiCall.preVpcs, apiCall.name))
    /\ Cardinality(apiVpcs) = Cardinality(VpcNames)

\* C18: get_instance(id), for the id of a handle launch returned, returns a
\* handle equal to that one: the same identifier and the same key pair.
C18_GetInstanceRoundTrip ==
    ApiLastIs("get_instance") => apiCall.ret \in apiHandles

\* C19: every extra keyword key/value given to a launch that sends its
\* request is in the request sent to create_instances, with that value.
C19_KwargsPassedVerbatim ==
    (ApiLastIs("launch") /\ apiCall.err = "none") =>
        \A item \in apiCall.kwargs : item \in apiCall.request

(***************************************************************************)
(* Claims about launching and deleting in batches.                         *)
(***************************************************************************)
Before(first, then) ==
    \A i, j \in 1..Len(batLog) :
        (batLog[i].op = first /\ batLog[j].op = then) => i < j

\* C16: every launch of the batch is issued before the first wait begins,
\* and every delete is issued before the first wait_for_delete begins.
C16_IssueBeforeWait ==
    /\ Before("launch", "wait")
    /\ Before("delete", "wait_for_delete")

(***************************************************************************)
(* Claims about the methods GCE does not implement.                        *)
(***************************************************************************)
GceBackendState ==
    <<gcePc, gceWait, gceDoneAt, gceErrField, gceResult, gceWaitRet, gceRaised,
      gceRet, gceSleeps, gceProbes, gceInserts, gceGets>>

\* C21: every call of released_image, image_serial, delete_image,
\* get_instance or snapshot on GCE ends in NotImplementedError with nothing
\* returned, sends no request to the backend and changes nothing, and leaves
\* the object ready for its caller's next call.
C21_UnsupportedIsGated ==
    [][gceStub' # gceStub =>
          /\ gceStub'.op \in UnsupportedOps
          /\ gceStub'.err = "NotImplementedError"
          /\ gceStub'.ret = "none"
          /\ GceBackendState' = GceBackendState
          /\ gcePc' = "idle"]_vars

C21_Witness ==
    /\ gceStub.op = "snapshot"
    /\ gceStub.err = "NotImplementedError"
    /\ gcePc = "returned"
    /\ gceInserts = 1

(***************************************************************************)
(* Claims about delete.                                                    *)
(***************************************************************************)
\* C22: when delete(wait) returns, for either value of wait, `lxc delete
\* --force` has been run to completion as the call's only command, the
\* container is absent and a probe of it made at that moment fails as not
\* found; with wait the call then entered wait_for_delete, without wait it
\* did not.
C22_DeleteReturnsWhenAbsent ==
    (LastIs("delete") /\ Ok(lxdCall.post)) =>
        /\ lxdCall.post.inst = "Absent"
        /\ lxdInst = "Absent"
        /\ ~Ok(State(Begin))
        /\ lxdCall.post.log[1].cmd = "delete"
        /\ lxdCall.post.log[1].post = "Absent"
        /\ Len(lxdCall.post.log) = (IF lxdCall.wait THEN 2 ELSE 1)
        /\ lxdCall.wait => lxdCall.post.log[2].cmd = "wait_for_delete"

C22_Witness ==
    /\ LastIs("delete")
    /\ lxdCall.wait
    /\ Ok(lxdCall.post)
    /\ lxdCall.pre.inst = "Running"
    /\ lxdInst = "Absent"

(***************************************************************************)
(* Claims about the handle's name.                                         *)
(***************************************************************************)
LxcCommands ==
    {"info", "start", "stop", "delete", "publish", "snapshot", "restore", "config"}

\* C23: the handle's name is, in every reachable state and before and after
\* every call, the name it was constructed with, and every lxc command a
\* call issues is given that name as its target (delete_snapshot gives it
\* '<name>/<snapshot_name>', a snapshot of that same container).
C23_NameNeverChanges ==
    /\ lxdName = HandleName
    /\ lxdCall.pre.name = HandleName
    /\ lxdCall.post.name = HandleName
    /\ \A i \in 1..Len(lxdCall.post.log) :
          LET e == lxdCall.post.log[i]
          IN  e.cmd \in LxcCommands =>
                IF LastIs("delete_snapshot")
                THEN e.target = HandleName \o "/" \o e.arg
                ELSE e.target = HandleName

C23_Witness ==
    /\ LastIs("delete_snapshot")
    /\ Ok(lxdCall.post)
    /\ lxdCall.post.log[1].target = "pycloudlib/snap"
    /\ lxdName = "pycloudlib"
    /\ "snap" \notin lxdSnaps

(***************************************************************************)
(* Claims about the EC2 object's attributes and key pairs.                 *)
(***************************************************************************)
CurrentKeyPair == <<apiKeyPair, apiKeyMaterial>>

C25_UploadRegistersGivenKey ==
    ApiLastIs("upload_key") =>
        /\ apiCall.err = "none"
        /\ apiKeyPair = (IF apiCall.name = "" THEN Tag ELSE apiCall.name)
        /\ apiKeyMaterial = Content(apiCall.path)
        /\ <<apiKeyPair, Content(apiCall.path)>> \in apiProviderKeys

(***************************************************************************)
(* Claims about launching into a VPC.                                      *)
(***************************************************************************)
\* C26: a launch with a vpc that has no subnet, or more than one, ends in
\* RuntimeError with no request sent, no instance created and no wait made;
\* a launch with a vpc that has one subnet sends a request carrying that
\* subnet's id and the vpc's security group ids.
C26_VpcNeedsOneSubnet ==
    /\ [](  (ApiLastIs("launch") /\ apiCall.vpc # NoVpc) =>
              IF apiCall.vpc.subnets # 1
              THEN /\ apiCall.err = "RuntimeError"
                   /\ apiCall.request = {}
                   /\ apiCall.ret = NoHandle
                   /\ ~apiCall.waited
              ELSE /\ apiCall.err = "none"
                   /\ <<"SubnetId", "subnet-" \o ToString(apiCall.vpc.id)>>
                          \in apiCall.request
                   /\ <<"SecurityGroupIds", "sg-" \o ToString(apiCall.vpc.id)>>
                          \in apiCall.request
                   /\ apiCall.ret \in apiHandles
                   /\ apiCall.waited = apiCall.wait )
    /\ [][(apiCall' # apiCall /\ apiCall'.err = "RuntimeError") =>
             apiHandles' = apiHandles]_vars

C26_Witness ==
    /\ ApiLastIs("launch")
    /\ apiCall.vpc # NoVpc
    /\ apiCall.vpc.subnets = 0
    /\ apiCall.err = "RuntimeError"
    /\ apiCall.wait
    /\ apiHandles = {}

(***************************************************************************)
(* Claims about EC2.delete_image.                                          *)
(***************************************************************************)
DeleteProtocol == <<"read_snapshot_id", "deregister_image", "delete_snapshot">>

\* C27: delete_image(image_id) reads the image's snapshot id, then
\* deregisters the image, then deletes that snapshot, in this order and each
\* once; no snapshot is deleted while its image is registered; a failed
\* deregistration ends the call with the snapshot not deleted.
C27_DeleteImageOrder ==
    /\ IsPrefix(ec2DelLog, DeleteProtocol)
    /\ ec2DelPc = "deregister" => ec2DelLog = SubSeq(DeleteProtocol, 1, 1)
    /\ ec2DelPc = "delete_snapshot" =>
          /\ ec2DelLog = SubSeq(DeleteProtocol, 1, 2)
          /\ ec2DelImage \notin ec2Registered
    /\ ec2DelPc = "returned" =>
          /\ ec2DelLog = DeleteProtocol
          /\ ec2DelSnap = SnapOf(ec2DelImage)
          /\ ec2DelSnap \in ec2SnapsDeleted
          /\ ec2DelImage \notin ec2Registered
    /\ \A image \in ec2Registered : SnapOf(image) \notin ec2SnapsDeleted
    /\ (ec2DelPc = "raised" /\ ec2DelImage \in ec2Registered) =>
          /\ Len(ec2DelLog) = 2
          /\ SnapOf(ec2DelImage) \notin ec2SnapsDeleted

C27_Witness ==
    /\ ec2DelPc = "returned"
    /\ ec2DelLog = DeleteProtocol
    /\ ec2DelImage \notin ec2Registered
    /\ SnapOf(ec2DelImage) \in ec2SnapsDeleted
    /\ ec2Registered # BaseImages

====
